---- MODULE Spec2Model ----
(***************************************************************************)
(* Model of backend/src/api.py: the Flask route layer of the drinks menu   *)
(* service (GET /drinks, GET /drinks-detail, POST /drinks,                 *)
(* PATCH /drinks/<id>, DELETE /drinks/<id>) and its error handlers.        *)
(*                                                                         *)
(* The Drink model (database/models.py) and requires_auth (auth/auth.py)   *)
(* are imported by api.py from other modules; the store operations and     *)
(* the two projections follow the specification's sections 3 and 4.1.      *)
(*                                                                         *)
(* Optional Python values (None or a value) are sequences of length 0 or   *)
(* 1: None == <<>>, a value v is <<v>>.                                    *)
(***************************************************************************)
EXTENDS Integers, Sequences, FiniteSets, TLC

\* ---------------------------------------------------------------- bounds
\* The store assigns the ids 1..MaxId
MaxId == 2

\* ---------------------------------------------------------------- values
Titles == {"Water", "Latte"}
\* The ingredients requests draw from: two colours, and a quantity that is
\* the short form's placeholder 1 and one that is not.
Blue1 == [color |-> "blue", parts |-> 1]
Red2 == [color |-> "red", parts |-> 2]
Ingredients == {Blue1, Red2}
Ids == 1..MaxId

None == <<>>
Some(v) == <<v>>
IsNone(o) == Len(o) = 0
Val(o) == o[1]

\* The recipes stored rows hold: empty, and two ingredients
Recipes == {<<>>, <<Red2, Blue1>>}

OptTitles == {None} \cup {Some(t) : t \in Titles}
OptRecipes == {None} \cup {Some(r) : r \in Recipes}

\* A JSON object sent as a request body: both fields are optional; a recipe
\* sent has two ingredients.
Payloads == [title : OptTitles, recipe : {None, Some(<<Red2, Blue1>>)}]

Permissions == {"get:drinks-detail", "post:drinks", "patch:drinks", "delete:drinks"}
\* No Authorization header, or a token that holds the permission of
\* GET /drinks-detail and lacks the three others
Tokens == {None, Some({"get:drinks-detail"})}

\* The server starts a thread per request and sets no cap on them; the model
\* follows at most MaxInflight view functions between their store calls
MaxInflight == 2

\* ------------------------------------------------- json.dumps / json.loads
\* The recipe column holds text.  Text is modelled as the sequence of the
\* JSON tokens json.dumps emits; numbers are written in decimal digits.
Digits == <<"0", "1", "2", "3", "4", "5", "6", "7", "8", "9">>
NumTok(n) == Digits[n + 1]
TokNum(t) == (CHOOSE d \in 1..Len(Digits) : Digits[d] = t) - 1

DumpIngredient(g) == <<"{", "color", g.color, "parts", NumTok(g.parts), "}">>

RECURSIVE DumpItems(_)
DumpItems(r) ==
    IF Len(r) = 0 THEN <<>>
    ELSE IF Len(r) = 1 THEN DumpIngredient(r[1])
    ELSE DumpIngredient(r[1]) \o <<",">> \o DumpItems(Tail(r))

\* json.dumps(recipe), recipe being None or a list of ingredient dicts
json_dumps(o) ==
    IF IsNone(o) THEN <<"null">>
    ELSE <<"[">> \o DumpItems(Val(o)) \o <<"]">>

RECURSIVE LoadItems(_)
LoadItems(toks) ==
    IF Len(toks) < 6 THEN <<>>
    ELSE LET g == [color |-> toks[3], parts |-> TokNum(toks[5])]
             rest == SubSeq(toks, 7, Len(toks))
         IN  <<g>> \o (IF Len(rest) > 0 /\ rest[1] = "," THEN LoadItems(Tail(rest))
                       ELSE <<>>)

\* json.loads(text): None for "null", else the list of ingredient dicts
json_loads(text) ==
    IF text = <<"null">> THEN None
    ELSE Some(LoadItems(SubSeq(text, 2, Len(text) - 1)))

RecipeTexts == {json_dumps(o) : o \in OptRecipes}

\* ------------------------------------------------------------- the store
\* A row of the drinks table.
Rows == [id : Ids, title : Titles, recipe : RecipeTexts]

StoredIds(store) == {r.id : r \in store}

\* Drink.query.filter_by(id=i).one_or_none() / .first(): None on a miss
query_by_id(store, i) ==
    IF i \in StoredIds(store) THEN Some(CHOOSE r \in store : r.id = i) ELSE None

RECURSIVE SortById(_)
SortById(S) ==
    IF S = {} THEN <<>>
    ELSE LET m == CHOOSE r \in S : \A q \in S : r.id <= q.id
         IN  <<m>> \o SortById(S \ {m})

\* Drink.query.all(): every row, in id order
query_all(store) == SortById(store)

\* drink.long(): exact recipe
long(row) == [id |-> row.id, title |-> row.title, recipe |-> json_loads(row.recipe)]

Entries(o) == IF IsNone(o) THEN <<>> ELSE Val(o)

\* drink.short(): every ingredient with the placeholder quantity 1
short(row) ==
    LET es == Entries(json_loads(row.recipe))
    IN  [id |-> row.id, title |-> row.title,
         recipe |-> [k \in 1..Len(es) |-> [color |-> es[k].color, parts |-> 1]]]

\* Whether the store accepts a row with this title under id i: the title is
\* required and unique among the other rows.
TitleAccepted(store, i, optTitle) ==
    /\ ~IsNone(optTitle)
    /\ \A r \in store : r.id # i => r.title # Val(optTitle)

\* drink.insert(): the row under the next id
Drink_insert(store, nid, title, text) ==
    store \cup {[id |-> nid, title |-> title, recipe |-> text]}

\* drink.update(): the assigned fields of the row of id i written: the
\* title, and the recipe text when one was assigned (optText not None)
Drink_update(store, i, title, optText) ==
    {r \in store : r.id # i}
    \cup {[id |-> i, title |-> title,
           recipe |-> IF IsNone(optText) THEN r.recipe ELSE Val(optText)] :
          r \in {q \in store : q.id = i}}

\* drink.delete(): the row of id i removed; silent when it is already gone
Drink_delete(store, i) == {r \in store : r.id # i}

\* The tables the application can find at start: ids and titles are unique
WellFormed(store) ==
    \A r, q \in store : (r.id = q.id \/ r.title = q.title) => r = q

\* ------------------------------------------------------ requests, responses
\* json: the request's Content-Type is application/json
\* data: request.data, None when the body is empty, else the JSON object sent
Request(op, id, token, json, data) ==
    [op |-> op, id |-> id, token |-> token, json |-> json, data |-> data]

\* request.get_json() raises BadRequest when a JSON body fails to parse, as
\* the empty body does
get_json_fails(request) == request.json /\ IsNone(request.data)

\* request.get_json(): the parsed body; None when the content type is not
\* JSON (Flask 1.x and 2.0, which return None on a mimetype mismatch)
get_json(request) == IF request.json THEN request.data ELSE None

Response(status, body) == [status |-> status, body |-> body]

DrinksBody(forms) == [shape |-> "drinks", success |-> TRUE, drinks |-> forms]
DeletedBody(i) == [shape |-> "deleted", success |-> TRUE, deleted |-> i]
ErrorBody(code, message) ==
    [shape |-> "error", success |-> FALSE, error |-> code, message |-> message]

NoResponse == Response(0, [shape |-> "none"])

NoRequest == Request("none", 0, None, FALSE, None)

\* What a view function holds between two of its store calls: the line it
\* goes on from (pc), the request it serves, and its drink object (the row
\* it built or looked up, with the fields it has assigned since)
Local(pc, request, drink) == [pc |-> pc, request |-> request, drink |-> drink]

Idle == Local("idle", NoRequest, None)

\* What a run of lines of a view function, or an error handler, ends with: a
\* returned response ("ret"), abort(code) ("abort"), another exception
\* ("exc"), falling off the function's end, which returns None ("none"), or
\* the next store call still to come ("cont").  store and next are the table
\* and the id counter it leaves behind, local what the thread holds.
Ret(resp, store, next) ==
    [t |-> "ret", code |-> 0, resp |-> resp, store |-> store, next |-> next,
     local |-> Idle]
Abort(code, store, next) ==
    [t |-> "abort", code |-> code, resp |-> NoResponse, store |-> store,
     next |-> next, local |-> Idle]
Raise(store, next) ==
    [t |-> "exc", code |-> 0, resp |-> NoResponse, store |-> store, next |-> next,
     local |-> Idle]
RetNone(store, next) ==
    [t |-> "none", code |-> 0, resp |-> NoResponse, store |-> store, next |-> next,
     local |-> Idle]
Cont(local, store, next) ==
    [t |-> "cont", code |-> 0, resp |-> NoResponse, store |-> store, next |-> next,
     local |-> local]

\* ------------------------------------------------------------------ routes
\* get_drinks listing the stored quantities instead of the placeholder
get_drinks_exact(store, next) ==
    LET drinks_all == query_all(store)
        exact(row) == [id |-> row.id, title |-> row.title,
                       recipe |-> Entries(json_loads(row.recipe))]
        drinks_exact == [k \in 1..Len(drinks_all) |-> exact(drinks_all[k])]
    IN  Ret(Response(200, DrinksBody(drinks_exact)), store, next)

\* GET /drinks
get_drinks(store, next) ==
    LET drinks_all == query_all(store)
        drinks_short == [k \in 1..Len(drinks_all) |-> short(drinks_all[k])]
    IN  Ret(Response(200, DrinksBody(drinks_short)), store, next)

\* GET /drinks-detail
get_drinks_details(store, next) ==
    LET drinks_all == query_all(store)
        drinks_long == [k \in 1..Len(drinks_all) |-> long(drinks_all[k])]
    IN  Ret(Response(200, DrinksBody(drinks_long)), store, next)

\* POST /drinks, up to Drink.insert(drink)
add_drink_insert(store, next, request) ==
    IF get_json_fails(request) THEN Abort(400, store, next)
    ELSE IF ~IsNone(request.data) THEN
        LET body == get_json(request) IN
        IF IsNone(body) THEN Raise(store, next)
        ELSE
            LET title == Val(body).title
                recipe == Val(body).recipe
            IN  IF ~TitleAccepted(store, next, title) THEN Raise(store, next)
                ELSE LET drink == [id |-> next, title |-> Val(title),
                                   recipe |-> json_dumps(recipe)]
                     IN  Cont(Local("add_drink_read", request, Some(drink)),
                              Drink_insert(store, next, drink.title, drink.recipe),
                              next + 1)
    ELSE Abort(422, store, next)

\* add_drink reading back the first row of the table instead of the row of
\* the new id
add_drink_read_first(store, next, local) ==
    IF store = {} THEN Raise(store, next)
    ELSE Ret(Response(200, DrinksBody(<<long(query_all(store)[1])>>)), store, next)

\* POST /drinks, from the read-back of the new row: new_drink.long() raises
\* AttributeError when the row is gone
add_drink_read(store, next, local) ==
    LET new_drink == query_by_id(store, Val(local.drink).id)
    IN  IF IsNone(new_drink) THEN Raise(store, next)
        ELSE Ret(Response(200, DrinksBody(<<long(Val(new_drink))>>)), store, next)

\* PATCH /drinks/<drink_id>, up to the assignments to drink.title and
\* drink.recipe; abort(404) and abort(400) are raised inside the try and
\* caught by its except, which returns nothing
patch_drink_lookup(store, next, drink_id, request) ==
    IF get_json_fails(request) THEN Abort(400, store, next)
    ELSE
        LET data == get_json(request) IN
        IF IsNone(data) THEN Raise(store, next)
        ELSE
            LET title == Val(data).title
                drink == query_by_id(store, drink_id)
            IN  IF IsNone(drink) THEN RetNone(store, next)
                ELSE IF IsNone(title) THEN RetNone(store, next)
                ELSE LET recipe == Val(data).recipe
                         assigned ==
                            [id |-> drink_id, title |-> Val(title),
                             recipe |-> IF ~IsNone(recipe) THEN json_dumps(recipe)
                                        ELSE Val(drink).recipe]
                     IN  Cont(Local("patch_drink_update", request, Some(assigned)),
                              store, next)

\* patch_drink assigning the recipe without the "is not None" test
patch_drink_update_overwrite(store, next, local) ==
    LET drink_id == local.request.id
        title == Val(get_json(local.request)).title
        recipe == Val(get_json(local.request)).recipe
    IN  IF drink_id \notin StoredIds(store) \/ ~TitleAccepted(store, drink_id, title)
        THEN RetNone(store, next)
        ELSE Cont(Local("patch_drink_read", local.request, local.drink),
                  Drink_update(store, drink_id, Val(title), Some(json_dumps(recipe))),
                  next)

\* PATCH /drinks/<drink_id>, drink.update(): a storage error (the title is
\* taken, the row is gone) is caught by the except, which returns nothing
patch_drink_update(store, next, local) ==
    LET drink_id == local.request.id
        title == Val(get_json(local.request)).title
        recipe == Val(get_json(local.request)).recipe
        text == IF ~IsNone(recipe) THEN Some(json_dumps(recipe)) ELSE None
    IN  IF drink_id \notin StoredIds(store) \/ ~TitleAccepted(store, drink_id, title)
        THEN RetNone(store, next)
        ELSE Cont(Local("patch_drink_read", local.request, local.drink),
                  Drink_update(store, drink_id, Val(title), text), next)

\* PATCH /drinks/<drink_id>, from the re-query of the row:
\* updated_drink.long() raises AttributeError when the row is gone, which the
\* except catches
patch_drink_read(store, next, local) ==
    LET updated_drink == query_by_id(store, local.request.id)
    IN  IF IsNone(updated_drink) THEN RetNone(store, next)
        ELSE Ret(Response(200, DrinksBody(<<long(Val(updated_drink))>>)), store, next)

\* DELETE /drinks/<drink_id>, the lookup: abort(404) is raised inside the try
\* and its bare except answers it with abort(422)
delete_drinks_lookup(store, next, drink_id, request) ==
    LET drink == query_by_id(store, drink_id)
    IN  IF IsNone(drink) THEN Abort(422, store, next)
        ELSE Cont(Local("delete_drinks_delete", request, drink), store, next)

\* DELETE /drinks/<drink_id>, drink.delete() and the response
delete_drinks_delete(store, next, local) ==
    Ret(Response(200, DeletedBody(local.request.id)),
        Drink_delete(store, local.request.id), next)

\* ---------------------------------------------------------- error handlers
unprocessable(store, next) == Raise(store, next)

not_found(store, next) ==
    Ret(Response(404, ErrorBody(404, "resource not found")), store, next)

resource_not_found(store, next) ==
    Ret(Response(400, ErrorBody(400, "bad request")), store, next)

unauthorized(store, next) ==
    Ret(Response(401, ErrorBody(401, "unauthorized")), store, next)

\* jsonify(dict, 500): two positional arguments make a JSON array of the two,
\* sent with the default status
internal_server_error(store, next) ==
    Ret(Response(200, [shape |-> "list",
                       items |-> <<ErrorBody(500, "Internal Server Error"), 500>>]),
        store, next)

\* An aborted status code no handler is registered for (405: method_not_allowed
\* is defined without the decorator): Flask answers the HTTPException's own
\* HTML page under that status
default_page(code, store, next) ==
    Ret(Response(code, [shape |-> "html"]), store, next)

\* The handler @app.errorhandler registers for an aborted status code: 422,
\* 404, 400, 401 and 500 have one, every other code has none
errorhandler(code, store, next) ==
    CASE code = 422 -> unprocessable(store, next)
      [] code = 404 -> not_found(store, next)
      [] code = 400 -> resource_not_found(store, next)
      [] code = 401 -> unauthorized(store, next)
      [] code = 500 -> internal_server_error(store, next)
      [] OTHER -> default_page(code, store, next)

\* An exception no handler took: in debug mode it propagates to the server,
\* which answers 500 with a traceback page; otherwise the 500 handler runs.
handle_exception(dbg, store, next) ==
    IF dbg THEN Response(500, [shape |-> "traceback"])
    ELSE internal_server_error(store, next).resp

\* The response Flask sends for what the view function ended with; none yet
\* while the view function is still running
full_dispatch_request(res, dbg) ==
    IF res.t = "cont" THEN NoResponse
    ELSE IF res.t = "ret" THEN res.resp
    ELSE IF res.t = "abort" THEN
        LET h == errorhandler(res.code, res.store, res.next)
        IN  IF h.t = "ret" THEN h.resp ELSE handle_exception(dbg, res.store, res.next)
    ELSE handle_exception(dbg, res.store, res.next)

\* ------------------------------------------------------------------- state
VARIABLES
    drinks,     \* the rows of the drinks table
    nextId,     \* the id the store assigns to the next inserted row
    debug,      \* whether the application runs in debug mode
    inflight,   \* the view functions that are between two store calls
    last        \* the step taken last: its lines, request, drink object, response

vars == <<drinks, nextId, debug, inflight, last>>

Event(step, request, drink, resp) ==
    [step |-> step, req |-> request, drink |-> drink, resp |-> resp]

\* Nothing at start empties the table (db_drop_and_create_all() is commented
\* out): the application finds the rows an earlier run left.
Init ==
    /\ drinks \in {s \in SUBSET Rows : WellFormed(s)}
    /\ nextId \in {n \in 1..(MaxId + 1) : \A r \in drinks : r.id < n}
    /\ debug \in BOOLEAN
    /\ inflight = <<>>
    /\ last = Event("none", NoRequest, None, NoResponse)

Remove(seq, k) == SubSeq(seq, 1, k - 1) \o SubSeq(seq, k + 1, Len(seq))

\* Which thread runs which view function is immaterial: the functions in
\* flight are kept in one fixed order, the same for every arrangement of them
Ordered(seq) ==
    LET n == Len(seq)
        orders == {p \in [1..n -> 1..n] : \A i, j \in 1..n : p[i] = p[j] => i = j}
    IN  CHOOSE o \in {[i \in 1..n |-> seq[p[i]]] : p \in orders} : TRUE

\* A free thread takes a request and runs the view function to its first
\* store call
Arrive(step, request, res) ==
    /\ Len(inflight) < MaxInflight
    /\ inflight' = IF res.t = "cont" THEN Ordered(Append(inflight, res.local))
                   ELSE inflight
    /\ drinks' = res.store
    /\ nextId' = res.next
    /\ last' = Event(step, request, res.local.drink, full_dispatch_request(res, debug))
    /\ UNCHANGED debug

\* The view function inflight[k] runs on to its next store call or its end
Continue(k, step, res) ==
    /\ inflight' = IF res.t = "cont" THEN Ordered([inflight EXCEPT ![k] = res.local])
                   ELSE Remove(inflight, k)
    /\ drinks' = res.store
    /\ nextId' = res.next
    /\ last' = Event(step, inflight[k].request, inflight[k].drink,
                      full_dispatch_request(res, debug))
    /\ UNCHANGED debug

GetDrinks ==
    \E token \in Tokens :
        Arrive("get_drinks", Request("GET /drinks", 0, token, FALSE, None),
               get_drinks(drinks, nextId))

GetDrinksDetail ==
    \E token \in Tokens :
        Arrive("get_drinks_details",
               Request("GET /drinks-detail", 0, token, FALSE, None),
               get_drinks_details(drinks, nextId))

\* Request bodies: empty or a JSON object under the JSON content type; empty
\* or not under another content type, where the body is never parsed and one
\* object stands for every body
JsonBodies == {None} \cup {Some(p) : p \in Payloads}
PlainBodies == {None, Some([title |-> Some("Latte"), recipe |-> None])}

PostRequests ==
    {Request("POST /drinks", 0, token, TRUE, data) :
        token \in Tokens, data \in JsonBodies}
    \cup {Request("POST /drinks", 0, token, FALSE, data) :
        token \in Tokens, data \in PlainBodies}

\* The store holds the ids 1..MaxId: a request that would insert beyond them
\* is left out
AddDrink ==
    \E request \in PostRequests :
        LET res == add_drink_insert(drinks, nextId, request)
        IN  /\ res.t = "cont" => nextId <= MaxId
            /\ Arrive("add_drink_insert", request, res)

AddDrinkRead ==
    \E k \in 1..Len(inflight) :
        /\ inflight[k].pc = "add_drink_read"
        /\ Continue(k, "add_drink_read",
                    add_drink_read(drinks, nextId, inflight[k]))

PatchRequests ==
    {Request("PATCH /drinks", i, token, TRUE, data) :
        i \in Ids, token \in Tokens, data \in JsonBodies}
    \cup {Request("PATCH /drinks", i, token, FALSE, data) :
        i \in Ids, token \in Tokens, data \in PlainBodies}

PatchDrink ==
    \E request \in PatchRequests :
        Arrive("patch_drink_lookup", request,
               patch_drink_lookup(drinks, nextId, request.id, request))

PatchDrinkUpdate ==
    \E k \in 1..Len(inflight) :
        /\ inflight[k].pc = "patch_drink_update"
        /\ Continue(k, "patch_drink_update",
                    patch_drink_update(drinks, nextId, inflight[k]))

PatchDrinkRead ==
    \E k \in 1..Len(inflight) :
        /\ inflight[k].pc = "patch_drink_read"
        /\ Continue(k, "patch_drink_read",
                    patch_drink_read(drinks, nextId, inflight[k]))

DeleteDrinks ==
    \E i \in Ids, token \in Tokens :
        LET request == Request("DELETE /drinks", i, token, FALSE, None)
        IN  Arrive("delete_drinks_lookup", request,
                   delete_drinks_lookup(drinks, nextId, i, request))

DeleteDrinksDelete ==
    \E k \in 1..Len(inflight) :
        /\ inflight[k].pc = "delete_drinks_delete"
        /\ Continue(k, "delete_drinks_delete",
                    delete_drinks_delete(drinks, nextId, inflight[k]))

Next ==
    \/ GetDrinks
    \/ GetDrinksDetail
    \/ AddDrink
    \/ AddDrinkRead
    \/ PatchDrink
    \/ PatchDrinkUpdate
    \/ PatchDrinkRead
    \/ DeleteDrinks
    \/ DeleteDrinksDelete

Spec == Init /\ [][Next]_vars

TypeOK ==
    /\ drinks \subseteq Rows
    /\ WellFormed(drinks)
    /\ nextId \in 1..(MaxId + 1)
    /\ \A r \in drinks : r.id < nextId
    /\ Len(inflight) <= MaxInflight

\* ------------------------------------------------------------ vocabulary
\* The permission the documentation of each endpoint asks for
RequiredPermission(op) ==
    CASE op = "GET /drinks-detail" -> "get:drinks-detail"
      [] op = "POST /drinks" -> "post:drinks"
      [] op = "PATCH /drinks" -> "patch:drinks"
      [] op = "DELETE /drinks" -> "delete:drinks"
      [] OTHER -> "none"

\* The steps in which a gated request arrives
GatedArrivals ==
    {"get_drinks_details", "add_drink_insert", "patch_drink_lookup", "delete_drinks_lookup"}

HasPermission(token, perm) == ~IsNone(token) /\ perm \in Val(token)

IsUniformError(r, code) ==
    /\ r.status = code
    /\ r.body.shape = "error"
    /\ r.body.success = FALSE
    /\ r.body.error = code

IsSuccessBody(r) == r.body.shape \in {"drinks", "deleted"}

\* The step sent a response
Answered(e) == e.resp.status # 0

\* The request carried a JSON object
HasPayload(request) == request.json /\ ~IsNone(request.data)

\* The response lists exactly the long form of the row stored under id i
AnswersRow(r, store, i) ==
    /\ r.status = 200
    /\ r.body.shape = "drinks"
    /\ r.body.success
    /\ Len(r.body.drinks) = 1
    /\ \E row \in store :
        /\ row.id = i
        /\ r.body.drinks[1].id = i
        /\ r.body.drinks[1].title = row.title
        /\ r.body.drinks[1].recipe = json_loads(row.recipe)

\* ------------------------------------------------------------------ claims
\* C1: PATCH (with a JSON object) or DELETE of an id that is not stored
\* answers 404 with the body {success: false, error: 404, message:
\* "resource not found"} and leaves the set of stored drinks as it was.
C1_MissingIdIs404 ==
    [][(/\ last'.step \in {"patch_drink_lookup", "delete_drinks_lookup"}
        /\ last'.step = "patch_drink_lookup" => HasPayload(last'.req)
        /\ last'.req.id \notin StoredIds(drinks))
            => /\ IsUniformError(last'.resp, 404)
               /\ last'.resp.body.message = "resource not found"
               /\ drinks' = drinks]_vars

\* C2: a gated endpoint runs only for a token holding its permission: no
\* token answers 401, a token lacking the permission answers 403, and in
\* both cases the store is unchanged and no drink is returned.
C2_PermissionGate ==
    [][(/\ last'.step \in GatedArrivals
        /\ ~HasPermission(last'.req.token, RequiredPermission(last'.req.op)))
            => /\ last'.resp.status = (IF IsNone(last'.req.token) THEN 401 ELSE 403)
               /\ ~IsSuccessBody(last'.resp)
               /\ drinks' = drinks]_vars

\* C3: PATCH of a stored id with a payload that has no title answers 400
\* with the uniform error body, and no row changes.
C3_PatchWithoutTitleIs400 ==
    [][(/\ last'.step = "patch_drink_lookup"
        /\ last'.req.id \in StoredIds(drinks)
        /\ HasPayload(last'.req)
        /\ IsNone(Val(last'.req.data).title))
            => /\ IsUniformError(last'.resp, 400)
               /\ drinks' = drinks]_vars

\* The store rejects the storage operation of the step: the insert of a
\* create, the update of a PATCH
StorageRejects(e, store) ==
    \/ /\ e.step = "add_drink_insert"
       /\ HasPayload(e.req)
       /\ ~TitleAccepted(store, 0, Val(e.req.data).title)
    \/ /\ e.step = "patch_drink_update"
       /\ e.req.id \in StoredIds(store)
       /\ ~TitleAccepted(store, e.req.id, Val(e.req.data).title)

\* C4: when the store rejects a create or an update (duplicate or null
\* title) the request answers 422 with the uniform error body and the store
\* is as before; no two stored drinks share a title.
C4_StorageFailureIs422 ==
    [][/\ StorageRejects(last', drinks)
            => (IsUniformError(last'.resp, 422) /\ drinks' = drinks)
       /\ \A r, q \in drinks' : r.title = q.title => r = q]_vars

\* C5: every response that is not a success response has the body
\* {success: false, error, message} with error equal to the HTTP status,
\* one of 404, 400, 422, 401, 500.
C5_UniformErrorBody ==
    (Answered(last) /\ ~IsSuccessBody(last.resp))
        => \E code \in {404, 400, 422, 401, 500} : IsUniformError(last.resp, code)

\* C6: POST /drinks with an empty body answers 422 with the uniform error
\* body and inserts nothing.
C6_EmptyPostIs422 ==
    [][(last'.step = "add_drink_insert" /\ IsNone(last'.req.data))
            => /\ IsUniformError(last'.resp, 422)
               /\ drinks' = drinks]_vars

\* The insert step of a POST whose title the store accepts adds one row,
\* under an id no stored drink has; the detail listing of the store then
\* holds exactly one drink of that id, with the posted title and recipe, and
\* every earlier drink unchanged
CreateInsertStep ==
    (/\ last'.step = "add_drink_insert"
     /\ HasPayload(last'.req)
     /\ TitleAccepted(drinks, 0, Val(last'.req.data).title))
        => LET posted == Val(last'.req.data)
               new == StoredIds(drinks') \ StoredIds(drinks)
               detail == get_drinks_details(drinks', nextId').resp.body.drinks
           IN  /\ Cardinality(new) = 1
               /\ Len(detail) = Cardinality(drinks) + 1
               /\ Cardinality({k \in 1..Len(detail) : detail[k].id \in new}) = 1
               /\ \A k \in 1..Len(detail) :
                    detail[k].id \in new
                        => /\ detail[k].title = Val(posted.title)
                           /\ detail[k].recipe = posted.recipe
               /\ \A r \in drinks :
                    /\ r \in drinks'
                    /\ \E k \in 1..Len(detail) : detail[k] = long(r)
               /\ \E k \in 1..Len(inflight') :
                    /\ inflight'[k].pc = "add_drink_read"
                    /\ Val(inflight'[k].drink).id \in new

\* C7: POST /drinks with a title not yet stored inserts one row under an id
\* no stored drink has, with every earlier drink unchanged; a successful POST
\* answers 200 with drinks = [the new id with the posted title and recipe],
\* and a GET /drinks-detail that follows the answer lists exactly one drink
\* of that id, with the posted title and recipe.
C7_CreateRoundTrip ==
    [][/\ CreateInsertStep
       /\ (last'.step = "add_drink_read" /\ IsSuccessBody(last'.resp))
            => LET posted == Val(last'.req.data)
                   form == [id |-> Val(last'.drink).id, title |-> Val(posted.title),
                            recipe |-> posted.recipe]
                   detail == get_drinks_details(drinks', nextId').resp.body.drinks
               IN  /\ last'.resp.status = 200
                   /\ last'.resp.body.drinks = <<form>>
                   /\ Cardinality({k \in 1..Len(detail) : detail[k].id = form.id}) = 1
                   /\ \E k \in 1..Len(detail) : detail[k] = form]_vars

\* C7, step by step: the insert of a POST with a title not yet stored adds
\* one row under an unused id, after which the detail listing holds exactly
\* one drink of that id with the posted title and recipe and every earlier
\* drink unchanged; the read-back writes nothing and answers 200 with exactly
\* the long form of the row then stored under that id (and fails when the
\* row is gone), which carries the posted title and recipe whenever the row
\* is still as the request inserted it.
C7_CreateRoundTripPerStep ==
    [][/\ CreateInsertStep
       /\ last'.step = "add_drink_read"
            => LET i == Val(last'.drink).id
                   posted == Val(last'.req.data)
               IN  /\ drinks' = drinks
                   /\ i \in StoredIds(drinks) => AnswersRow(last'.resp, drinks, i)
                   /\ IsSuccessBody(last'.resp) => i \in StoredIds(drinks)
                   /\ Val(last'.drink) \in drinks
                        => /\ last'.resp.body.drinks[1].title = Val(posted.title)
                           /\ last'.resp.body.drinks[1].recipe = posted.recipe]_vars

\* A POST answered with its two-ingredient recipe, beside another drink
C7_Witness ==
    /\ last.step = "add_drink_read"
    /\ AnswersRow(last.resp, drinks, Val(last.drink).id)
    /\ last.resp.body.drinks[1].recipe = Some(<<Red2, Blue1>>)
    /\ last.resp.body.drinks[1].recipe = Val(last.req.data).recipe
    /\ last.resp.body.drinks[1].title = Val(Val(last.req.data).title)
    /\ Cardinality(drinks) = 2

\* The lookup of a PATCH writes nothing, and its update leaves the rows of
\* the other ids as they were
PatchFrame ==
    /\ last'.step = "patch_drink_lookup" => drinks' = drinks
    /\ last'.step = "patch_drink_update"
        => {r \in drinks' : r.id # last'.req.id} = {r \in drinks : r.id # last'.req.id}

\* C8: a successful PATCH /drinks/i of a stored drink sets the stored title
\* to the payload title; a recipe in the payload becomes the stored recipe,
\* with no recipe the stored recipe is the one the drink had before the
\* request; the drink keeps id i, every other drink is unchanged, and the
\* response is {success: true, drinks: [long form of the updated drink]}.
C8_PatchEffect ==
    [][/\ PatchFrame
       /\ (last'.step = "patch_drink_update" /\ Len(inflight') = Len(inflight))
            => Val(last'.drink) \in drinks'
       /\ (last'.step = "patch_drink_read" /\ IsSuccessBody(last'.resp))
            => /\ Val(last'.drink) \in drinks'
               /\ last'.resp.status = 200
               /\ last'.resp.body.drinks = <<long(Val(last'.drink))>>]_vars

\* C8, step by step: the lookup of a PATCH writes nothing; its update, of a
\* stored id with a title the store accepts, sets the title, replaces the
\* recipe by the payload's when it has one and else leaves the recipe stored
\* at that moment, keeps the id and leaves the other drinks unchanged; the
\* re-query writes nothing and answers exactly the long form of the row then
\* stored under the id (nothing when the row is gone), which is the drink as
\* the request assigned it whenever the row is still so.
C8_PatchEffectPerStep ==
    [][/\ PatchFrame
       /\ (/\ last'.step = "patch_drink_update"
           /\ last'.req.id \in StoredIds(drinks)
           /\ TitleAccepted(drinks, last'.req.id, Val(last'.req.data).title))
            => LET posted == Val(last'.req.data)
                   i == last'.req.id
                   old == Val(query_by_id(drinks, i))
               IN  /\ Cardinality({r \in drinks' : r.id = i}) = 1
                   /\ LET now == Val(query_by_id(drinks', i))
                      IN  /\ now.title = Val(posted.title)
                          /\ IF IsNone(posted.recipe)
                             THEN now.recipe = old.recipe
                             ELSE json_loads(now.recipe) = posted.recipe
                   /\ \E k \in 1..Len(inflight') :
                        /\ inflight'[k].pc = "patch_drink_read"
                        /\ inflight'[k].request = last'.req
       /\ last'.step = "patch_drink_read"
            => /\ drinks' = drinks
               /\ last'.req.id \in StoredIds(drinks)
                    => AnswersRow(last'.resp, drinks, last'.req.id)
               /\ IsSuccessBody(last'.resp) => last'.req.id \in StoredIds(drinks)
               /\ Val(last'.drink) \in drinks
                    => last'.resp.body.drinks = <<long(Val(last'.drink))>>]_vars

\* The update of a PATCH with no recipe, of a drink whose stored recipe has
\* ingredients, beside another drink
C8_Witness ==
    /\ last.step = "patch_drink_update"
    /\ ~Answered(last)
    /\ \E k \in 1..Len(inflight) :
        inflight[k].pc = "patch_drink_read" /\ inflight[k].request = last.req
    /\ IsNone(Val(last.req.data).recipe)
    /\ \E r \in drinks :
        /\ r.id = last.req.id
        /\ r.title = Val(Val(last.req.data).title)
        /\ r.recipe = json_dumps(Some(<<Red2, Blue1>>))
    /\ Cardinality(drinks) = 2

\* C9: GET /drinks needs no token, answers {success: true, drinks: [...]}
\* with one short form per stored drink, every ingredient of every recipe
\* listed with parts 1 whatever the stored quantity, and leaves the store
\* unchanged.
C9_ShortFormMasksParts ==
    [][last'.step = "get_drinks"
        => /\ last'.resp.status = 200
           /\ last'.resp.body.shape = "drinks"
           /\ last'.resp.body.success
           /\ drinks' = drinks
           /\ Len(last'.resp.body.drinks) = Cardinality(drinks)
           /\ \A r \in drinks :
                \E k \in 1..Len(last'.resp.body.drinks) :
                    LET form == last'.resp.body.drinks[k]
                        stored == Entries(json_loads(r.recipe))
                    IN  /\ form.id = r.id
                        /\ form.title = r.title
                        /\ Len(form.recipe) = Len(stored)
                        /\ \A j \in 1..Len(stored) :
                            /\ form.recipe[j].color = stored[j].color
                            /\ form.recipe[j].parts = 1]_vars

\* GET /drinks without a token, of a store holding a drink with a quantity
\* other than 1
C9_Witness ==
    /\ last.step = "get_drinks"
    /\ IsNone(last.req.token)
    /\ last.resp.status = 200
    /\ \E r \in drinks :
        \E j \in 1..Len(Entries(json_loads(r.recipe))) :
            Entries(json_loads(r.recipe))[j].parts # 1

\* C10: DELETE of a stored id answers {success: true, deleted: id} and
\* removes exactly that row; an id once deleted appears in no later listing,
\* and a DELETE of an id already deleted answers 404.
C10_DeleteThenNotFound ==
    [][/\ last'.step = "delete_drinks_delete"
            => /\ last'.resp.status = 200
               /\ last'.resp.body.shape = "deleted"
               /\ last'.resp.body.deleted = last'.req.id
               /\ drinks' = {r \in drinks : r.id # last'.req.id}
       /\ last'.step \in {"get_drinks", "get_drinks_details"}
            => \A k \in 1..Len(last'.resp.body.drinks) :
                    last'.resp.body.drinks[k].id \in StoredIds(drinks)
       /\ (/\ last'.step = "delete_drinks_lookup"
           /\ last'.req.id \notin StoredIds(drinks)
           /\ last'.req.id < nextId)
            => IsUniformError(last'.resp, 404)]_vars

====
